---- MODULE Spec2Model ----
(***************************************************************************)
(* The chunk pool manager of vengine-rs (src/src/memory/memory_manager.rs):*)
(* VEMemoryManager owns, per memory type index, a Vec of VEMemoryChunk,    *)
(* a chunk identifier counter and the global `mapped` flag.                *)
(*                                                                         *)
(* VEMemoryChunk and VESingleAllocation live in crate::memory::memory_chunk,*)
(* of which only the uses are at hand; the chunk is modelled from the      *)
(* natural-language specification (section 4.2): a chunk of fixed capacity *)
(* keeps its live sub-allocations keyed by allocation identifier, answers  *)
(* first-fit queries over the bytes no live sub-allocation covers, and     *)
(* holds at most one host mapping of itself.                               *)
(*                                                                         *)
(* Device primitives (allocate, bind, map) may fail: their outcome is an   *)
(* input of the step (create_ok, bind_ok, map_ok).                         *)
(***************************************************************************)
EXTENDS Integers, Sequences, FiniteSets

\* ------------------------------------------------------------------ bounds

\* Memory type indices the callers use: 0 .. NumTypes-1.
NumTypes == 2

\* Cap on identifier_counter (chunk creations attempted).
MaxChunks == 2

\* Cap on the number of allocation handles the callers ever obtained.
MaxHandles == 3

\* Capacity of every chunk, in bytes (VEMemoryChunk::new takes no size).
ChunkCapacity == 2

MemoryTypes == 0 .. (NumTypes - 1)

\* Requested sizes, including one larger than a chunk.
Sizes == 1 .. (ChunkCapacity + 1)

\* ------------------------------------------------------------------- state

VARIABLES
    chunks,              \* HashMap<u32, Vec<VEMemoryChunk>>, absent key = <<>>
    identifier_counter,  \* u64
    mapped,              \* bool
    handles,             \* the VESingleAllocation values callers were handed
    last,                \* the last call: operation, arguments, result
    held,                \* handle of the last successful map() with no unmap() call since
    reopened,            \* "unmapped" from unmap(held) to the next map() call,
                         \* "remapped" right after that map() call, else "no"
    rebind               \* handle freed right after the bind that returned it

vars == <<chunks, identifier_counter, mapped, handles, last, held, reopened, rebind>>

\* VESingleAllocation { alloc_identifier, chunk_identifier, size, offset }
VESingleAllocation(chunk_identifier, alloc_identifier, offset, size) ==
    [chunk_identifier |-> chunk_identifier, alloc_identifier |-> alloc_identifier,
     offset |-> offset, size |-> size]

\* "no handle": never returned by a bind (sizes are positive).
NoAllocation == VESingleAllocation(0, 0, 0, 0)

\* Handles made up by a caller, with chunk identifiers no chunk ever gets:
\* 0 (the counter is incremented before use) and one above the cap.
Forged == {VESingleAllocation(c, 0, 0, 1) : c \in {0, MaxChunks + 1}}

\* Option<u64>
Some(offset) == [some |-> TRUE, offset |-> offset]
None == [some |-> FALSE, offset |-> 0]

Min(S) == CHOOSE x \in S : \A y \in S : x <= y

\* ------------------------------------------------------- the memory chunk

\* VEMemoryChunk::new(device, chunk_identifier, memory_type_index)
chunk_new(chunk_identifier, memory_type_index) ==
    [chunk_identifier |-> chunk_identifier,
     memory_type_index |-> memory_type_index,
     allocations |-> {},
     alloc_counter |-> 0,
     is_mapped |-> FALSE]

\* [offset, offset+size) lies in the chunk and meets no live sub-allocation.
is_free_space(chunk, offset, size) ==
    /\ offset + size <= ChunkCapacity
    /\ \A a \in chunk.allocations :
          \/ offset + size <= a.offset
          \/ a.offset + a.size <= offset

\* find_free_memory_offset(size): pure query, the first free region able to
\* hold `size` contiguous bytes.
find_free_memory_offset(chunk, size) ==
    LET fits == {o \in 0 .. (ChunkCapacity - 1) : is_free_space(chunk, o, size)}
    IN  IF fits = {} THEN None ELSE Some(Min(fits))

\* bind_buffer_memory / bind_image_memory(resource, size, offset): commits the
\* resource at the offset under a fresh allocation identifier, or BindFailed.
chunk_bind_memory(chunk, size, offset, bind_ok) ==
    IF bind_ok
    THEN LET a == VESingleAllocation(chunk.chunk_identifier, chunk.alloc_counter,
                                     offset, size)
         IN  [res |-> "Ok", allocation |-> a,
              chunk |-> [chunk EXCEPT !.allocations = @ \cup {a},
                                      !.alloc_counter = @ + 1]]
    ELSE [res |-> "BindFailed", allocation |-> NoAllocation, chunk |-> chunk]

\* map(offset, size): maps the backing allocation, or MapFailed.
chunk_map(chunk, offset, size, map_ok) ==
    IF map_ok
    THEN [res |-> "Ok", chunk |-> [chunk EXCEPT !.is_mapped = TRUE]]
    ELSE [res |-> "MappingFailed", chunk |-> chunk]

\* unmap(): releases the chunk's mapping; no-op if nothing was mapped.
chunk_unmap(chunk) == [chunk EXCEPT !.is_mapped = FALSE]

\* free_allocation(alloc_identifier): the sub-allocation's bytes are free again.
chunk_free_allocation(chunk, alloc_identifier) ==
    [chunk EXCEPT !.allocations =
        {a \in @ : a.alloc_identifier # alloc_identifier}]

\* ------------------------------------------------------ the pool manager

\* VEMemoryManager::new
Init ==
    /\ chunks = [t \in MemoryTypes |-> <<>>]
    /\ identifier_counter = 0
    /\ mapped = FALSE
    /\ handles = {}
    /\ last = [op |-> "new", memory_type_index |-> 0, size |-> 0,
               allocation |-> NoAllocation, res |-> "Ok", ret |-> NoAllocation]
    /\ held = NoAllocation
    /\ reopened = "no"
    /\ rebind = NoAllocation

\* Position of a chunk: its memory type's Vec and the index in it.
Loc(memory_type_index, index) ==
    [memory_type_index |-> memory_type_index, index |-> index]

NoLoc == Loc(0, 0)

\* for chunks_for_type in self.chunks.values() { for chunk in chunks_for_type {
\*     if chunk.chunk_identifier == allocation.chunk_identifier { ... return
\* The Vecs are walked in order, the HashMap's values in no fixed order: every
\* type's first matching chunk may be the one found; {NoLoc} if none matches.
lookup(chunk_identifier) ==
    LET first(t) ==
            {i \in 1 .. Len(chunks[t]) :
                /\ chunks[t][i].chunk_identifier = chunk_identifier
                /\ \A j \in 1 .. (i - 1) :
                      chunks[t][j].chunk_identifier # chunk_identifier}
        found == UNION {{Loc(t, i) : i \in first(t)} : t \in MemoryTypes}
    IN  IF found = {} THEN {NoLoc} ELSE found

\* find_free gone wrong: the scan keeps the last chunk with room, not the first.
find_free_last_fit(memory_type_index, size, create_ok) ==
    LET chunks_for_type == chunks[memory_type_index]
        hits == {i \in 1 .. Len(chunks_for_type) :
                    find_free_memory_offset(chunks_for_type[i], size).some}
        i == CHOOSE i \in hits : \A j \in hits : j <= i
    IN  IF hits # {}
        THEN [res |-> "Ok", chunks |-> chunks,
              identifier_counter |-> identifier_counter,
              index |-> i,
              offset |-> find_free_memory_offset(chunks_for_type[i], size).offset]
        ELSE IF create_ok
        THEN [res |-> "Ok",
              chunks |-> [chunks EXCEPT ![memory_type_index] =
                             Append(@, chunk_new(identifier_counter + 1,
                                                 memory_type_index))],
              identifier_counter |-> identifier_counter + 1,
              index |-> Len(chunks_for_type) + 1,
              offset |-> 0]
        ELSE [res |-> "ChunkCreationFailed", chunks |-> chunks,
              identifier_counter |-> identifier_counter + 1,
              index |-> 0, offset |-> 0]

\* find_free gone wrong: a new chunk is numbered by its place in its memory
\* type's list, not by the pool's counter.
find_free_numbers_per_type(memory_type_index, size, create_ok) ==
    LET chunks_for_type == chunks[memory_type_index]
        hits == {i \in 1 .. Len(chunks_for_type) :
                    find_free_memory_offset(chunks_for_type[i], size).some}
    IN  IF hits # {}
        THEN [res |-> "Ok", chunks |-> chunks,
              identifier_counter |-> identifier_counter,
              index |-> Min(hits),
              offset |-> find_free_memory_offset(chunks_for_type[Min(hits)], size).offset]
        ELSE IF create_ok
        THEN [res |-> "Ok",
              chunks |-> [chunks EXCEPT ![memory_type_index] =
                             Append(@, chunk_new(Len(chunks_for_type) + 1,
                                                 memory_type_index))],
              identifier_counter |-> identifier_counter + 1,
              index |-> Len(chunks_for_type) + 1,
              offset |-> 0]
        ELSE [res |-> "ChunkCreationFailed", chunks |-> chunks,
              identifier_counter |-> identifier_counter + 1,
              index |-> 0, offset |-> 0]

\* find_free gone wrong: a new chunk is created for memory type 0 whatever
\* the list it is pushed to.
find_free_type_zero(memory_type_index, size, create_ok) ==
    LET chunks_for_type == chunks[memory_type_index]
        hits == {i \in 1 .. Len(chunks_for_type) :
                    find_free_memory_offset(chunks_for_type[i], size).some}
    IN  IF hits # {}
        THEN [res |-> "Ok", chunks |-> chunks,
              identifier_counter |-> identifier_counter,
              index |-> Min(hits),
              offset |-> find_free_memory_offset(chunks_for_type[Min(hits)], size).offset]
        ELSE IF create_ok
        THEN [res |-> "Ok",
              chunks |-> [chunks EXCEPT ![memory_type_index] =
                             Append(@, chunk_new(identifier_counter + 1, 0))],
              identifier_counter |-> identifier_counter + 1,
              index |-> Len(chunks_for_type) + 1,
              offset |-> 0]
        ELSE [res |-> "ChunkCreationFailed", chunks |-> chunks,
              identifier_counter |-> identifier_counter + 1,
              index |-> 0, offset |-> 0]

\* fn find_free(&mut self, memory_type_index, size)
\*     -> Result<(&mut VEMemoryChunk, u64), VEMemoryChunkError>
find_free(memory_type_index, size, create_ok) ==
    LET chunks_for_type == chunks[memory_type_index]
        hits == {i \in 1 .. Len(chunks_for_type) :
                    find_free_memory_offset(chunks_for_type[i], size).some}
    IN  IF hits # {}
        THEN [res |-> "Ok", chunks |-> chunks,
              identifier_counter |-> identifier_counter,
              index |-> Min(hits),
              offset |-> find_free_memory_offset(chunks_for_type[Min(hits)], size).offset]
        ELSE IF create_ok
        THEN [res |-> "Ok",
              chunks |-> [chunks EXCEPT ![memory_type_index] =
                             Append(@, chunk_new(identifier_counter + 1,
                                                 memory_type_index))],
              identifier_counter |-> identifier_counter + 1,
              index |-> Len(chunks_for_type) + 1,
              offset |-> 0]
        ELSE [res |-> "ChunkCreationFailed", chunks |-> chunks,
              identifier_counter |-> identifier_counter + 1,
              index |-> 0, offset |-> 0]

\* bind gone wrong: the chunk records the allocation before the device's bind
\* is known to have failed.
bind_memory_commits_first(memory_type_index, size, create_ok, bind_ok) ==
    LET free == find_free(memory_type_index, size, create_ok)
    IN  IF free.res # "Ok"
        THEN [res |-> free.res, allocation |-> NoAllocation,
              chunks |-> free.chunks,
              identifier_counter |-> free.identifier_counter]
        ELSE LET b == chunk_bind_memory(free.chunks[memory_type_index][free.index],
                                        size, free.offset, bind_ok)
                 c == chunk_bind_memory(free.chunks[memory_type_index][free.index],
                                        size, free.offset, TRUE)
             IN  [res |-> b.res, allocation |-> b.allocation,
                  chunks |-> [free.chunks EXCEPT
                                 ![memory_type_index][free.index] = c.chunk],
                  identifier_counter |-> free.identifier_counter]

\* let free = self.find_free(memory_type_index, size)?;
\* free.0.bind_..._memory(resource, size, free.1)
bind_memory(memory_type_index, size, create_ok, bind_ok) ==
    LET free == find_free(memory_type_index, size, create_ok)
    IN  IF free.res # "Ok"
        THEN [res |-> free.res, allocation |-> NoAllocation,
              chunks |-> free.chunks,
              identifier_counter |-> free.identifier_counter]
        ELSE LET b == chunk_bind_memory(free.chunks[memory_type_index][free.index],
                                        size, free.offset, bind_ok)
             IN  [res |-> b.res, allocation |-> b.allocation,
                  chunks |-> [free.chunks EXCEPT
                                 ![memory_type_index][free.index] = b.chunk],
                  identifier_counter |-> free.identifier_counter]

\* pub fn bind_buffer_memory(&mut self, memory_type_index, buffer, size)
bind_buffer_memory(memory_type_index, size, create_ok, bind_ok) ==
    bind_memory(memory_type_index, size, create_ok, bind_ok)

\* pub fn bind_image_memory(&mut self, memory_type_index, image, size)
bind_image_memory(memory_type_index, size, create_ok, bind_ok) ==
    bind_memory(memory_type_index, size, create_ok, bind_ok)

\* map gone wrong: the mapped flag is not consulted.
map_unguarded(allocation, loc, map_ok) ==
    IF loc = NoLoc
    THEN [res |-> "NoAllocationFoundToMap", chunks |-> chunks, mapped |-> mapped]
    ELSE LET m == chunk_map(chunks[loc.memory_type_index][loc.index],
                            allocation.offset, allocation.size, map_ok)
         IN  [res |-> m.res,
              chunks |-> [chunks EXCEPT
                             ![loc.memory_type_index][loc.index] = m.chunk],
              mapped |-> TRUE]

\* map gone wrong: the chunk is looked up before the mapped flag is consulted.
map_lookup_first(allocation, loc, map_ok) ==
    IF loc = NoLoc
    THEN [res |-> "NoAllocationFoundToMap", chunks |-> chunks, mapped |-> mapped]
    ELSE IF mapped
    THEN [res |-> "MemoryAlreadyMapped", chunks |-> chunks, mapped |-> mapped]
    ELSE LET m == chunk_map(chunks[loc.memory_type_index][loc.index],
                            allocation.offset, allocation.size, map_ok)
         IN  [res |-> m.res,
              chunks |-> [chunks EXCEPT
                             ![loc.memory_type_index][loc.index] = m.chunk],
              mapped |-> TRUE]

\* map gone wrong: the mapped flag is set before the chunk is looked up.
map_flags_first(allocation, loc, map_ok) ==
    IF mapped
    THEN [res |-> "MemoryAlreadyMapped", chunks |-> chunks, mapped |-> mapped]
    ELSE IF loc = NoLoc
    THEN [res |-> "NoAllocationFoundToMap", chunks |-> chunks, mapped |-> TRUE]
    ELSE LET m == chunk_map(chunks[loc.memory_type_index][loc.index],
                            allocation.offset, allocation.size, map_ok)
         IN  [res |-> m.res,
              chunks |-> [chunks EXCEPT ![loc.memory_type_index][loc.index] =
                             m.chunk],
              mapped |-> TRUE]

\* pub fn map(&mut self, allocation) -> Result<*mut c_void, VEMemoryManagerError>
map(allocation, loc, map_ok) ==
    IF mapped
    THEN [res |-> "MemoryAlreadyMapped", chunks |-> chunks, mapped |-> mapped]
    ELSE IF loc = NoLoc
    THEN [res |-> "NoAllocationFoundToMap", chunks |-> chunks, mapped |-> mapped]
    ELSE LET m == chunk_map(chunks[loc.memory_type_index][loc.index],
                            allocation.offset, allocation.size, map_ok)
         IN  [res |-> m.res,
              chunks |-> [chunks EXCEPT
                             ![loc.memory_type_index][loc.index] = m.chunk],
              mapped |-> TRUE]

\* unmap gone wrong: the chunk is unmapped, the mapped flag is left as it was.
unmap_keeps_flag(allocation, loc) ==
    IF loc = NoLoc
    THEN [res |-> "NoAllocationFoundToUnmap", chunks |-> chunks, mapped |-> mapped]
    ELSE [res |-> "Ok",
          chunks |-> [chunks EXCEPT ![loc.memory_type_index][loc.index] =
                         chunk_unmap(@)],
          mapped |-> mapped]

\* unmap gone wrong: with the mapped flag clear, the call is refused.
unmap_checks_flag(allocation, loc) ==
    IF loc = NoLoc \/ ~mapped
    THEN [res |-> "NoAllocationFoundToUnmap", chunks |-> chunks, mapped |-> mapped]
    ELSE [res |-> "Ok",
          chunks |-> [chunks EXCEPT ![loc.memory_type_index][loc.index] =
                         chunk_unmap(@)],
          mapped |-> FALSE]

\* pub fn unmap(&mut self, allocation) -> Result<(), VEMemoryManagerError>
unmap(allocation, loc) ==
    IF loc = NoLoc
    THEN [res |-> "NoAllocationFoundToUnmap", chunks |-> chunks, mapped |-> mapped]
    ELSE [res |-> "Ok",
          chunks |-> [chunks EXCEPT ![loc.memory_type_index][loc.index] =
                         chunk_unmap(@)],
          mapped |-> FALSE]

\* free_allocation gone wrong: a chunk left without allocations is taken out
\* of its list.
free_allocation_drops_empty(allocation, loc) ==
    IF loc = NoLoc
    THEN [res |-> "NoAllocationFoundToFree", chunks |-> chunks]
    ELSE LET chunks_for_type == chunks[loc.memory_type_index]
             freed == chunk_free_allocation(chunks_for_type[loc.index],
                                            allocation.alloc_identifier)
         IN  [res |-> "Ok",
              chunks |-> [chunks EXCEPT ![loc.memory_type_index] =
                             IF freed.allocations = {}
                             THEN SubSeq(@, 1, loc.index - 1) \o
                                  SubSeq(@, loc.index + 1, Len(@))
                             ELSE [@ EXCEPT ![loc.index] = freed]]]

\* pub fn free_allocation(&mut self, allocation) -> Result<(), VEMemoryManagerError>
free_allocation(allocation, loc) ==
    IF loc = NoLoc
    THEN [res |-> "NoAllocationFoundToFree", chunks |-> chunks]
    ELSE [res |-> "Ok",
          chunks |-> [chunks EXCEPT ![loc.memory_type_index][loc.index] =
                         chunk_free_allocation(@, allocation.alloc_identifier)]]

\* ------------------------------------------------------------- the calls

\* `reopened` after a call that is not a map(): "remapped" lasts one call.
Settled == IF reopened = "remapped" THEN "no" ELSE reopened

\* A caller's bind call and what it leaves behind.
Bound(op, memory_type_index, size, r) ==
    /\ r.identifier_counter <= MaxChunks
    /\ chunks' = r.chunks
    /\ identifier_counter' = r.identifier_counter
    /\ handles' = IF r.res = "Ok" THEN handles \cup {r.allocation} ELSE handles
    /\ last' = [op |-> op, memory_type_index |-> memory_type_index, size |-> size,
                allocation |-> NoAllocation, res |-> r.res, ret |-> r.allocation]
    /\ rebind' = NoAllocation
    /\ reopened' = Settled
    /\ UNCHANGED <<mapped, held>>

\* The device outcomes a bind call can meet: the allocation of a chunk is
\* attempted only if find_free creates one, the bind only if a chunk is there.
DeviceOutcomes(memory_type_index, size) ==
    {o \in BOOLEAN \X BOOLEAN :
        LET free == find_free(memory_type_index, size, o[1])
        IN  /\ free.identifier_counter = identifier_counter => o[1]
            /\ free.res # "Ok" => o[2]}

CallBindBufferMemory(memory_type_index, size) ==
    /\ Cardinality(handles) < MaxHandles
    /\ \E o \in DeviceOutcomes(memory_type_index, size) :
          Bound("bind", memory_type_index, size,
                bind_buffer_memory(memory_type_index, size, o[1], o[2]))

CallBindImageMemory(memory_type_index, size) ==
    /\ Cardinality(handles) < MaxHandles
    /\ \E o \in DeviceOutcomes(memory_type_index, size) :
          Bound("bind", memory_type_index, size,
                bind_image_memory(memory_type_index, size, o[1], o[2]))

\* The record of a call that takes a handle.
Called(op, allocation, res) ==
    [op |-> op, memory_type_index |-> 0, size |-> 0,
     allocation |-> allocation, res |-> res, ret |-> NoAllocation]

\* The device's map is attempted only if map() reaches the chunk.
MapOutcomes(loc) == IF mapped \/ loc = NoLoc THEN {TRUE} ELSE BOOLEAN

CallMap(allocation) ==
    \E loc \in lookup(allocation.chunk_identifier) : \E map_ok \in MapOutcomes(loc) :
        LET r == map(allocation, loc, map_ok)
        IN  /\ chunks' = r.chunks
            /\ mapped' = r.mapped
            /\ last' = Called("map", allocation, r.res)
            /\ held' = IF r.res = "Ok" THEN allocation ELSE held
            /\ reopened' = IF reopened = "unmapped" THEN "remapped" ELSE "no"
            /\ rebind' = NoAllocation
            /\ UNCHANGED <<identifier_counter, handles>>

CallUnmap(allocation) ==
    \E loc \in lookup(allocation.chunk_identifier) :
        LET r == unmap(allocation, loc)
        IN  /\ chunks' = r.chunks
            /\ mapped' = r.mapped
            /\ last' = Called("unmap", allocation, r.res)
            /\ held' = NoAllocation
            /\ reopened' = IF held # NoAllocation /\ allocation = held
                            THEN "unmapped" ELSE Settled
            /\ rebind' = NoAllocation
            /\ UNCHANGED <<identifier_counter, handles>>

\* free_allocation gone wrong: freeing the mapped allocation clears the mapped
\* flag.
CallFreeAllocationUnmaps(allocation) ==
    \E loc \in lookup(allocation.chunk_identifier) :
        LET r == free_allocation(allocation, loc)
        IN  /\ chunks' = r.chunks
            /\ mapped' = IF r.res = "Ok" /\ allocation = held THEN FALSE ELSE mapped
            /\ last' = Called("free_allocation", allocation, r.res)
            /\ rebind' = IF /\ last.op = "bind"
                            /\ last.res = "Ok"
                            /\ last.ret = allocation
                            /\ r.res = "Ok"
                         THEN allocation ELSE NoAllocation
            /\ reopened' = Settled
            /\ UNCHANGED <<identifier_counter, handles, held>>

CallFreeAllocation(allocation) ==
    \E loc \in lookup(allocation.chunk_identifier) :
        LET r == free_allocation(allocation, loc)
        IN  /\ chunks' = r.chunks
            /\ last' = Called("free_allocation", allocation, r.res)
            /\ rebind' = IF /\ last.op = "bind"
                            /\ last.res = "Ok"
                            /\ last.ret = allocation
                            /\ r.res = "Ok"
                         THEN allocation ELSE NoAllocation
            /\ reopened' = Settled
            /\ UNCHANGED <<identifier_counter, mapped, handles, held>>

Next ==
    \/ \E t \in MemoryTypes, size \in Sizes : CallBindBufferMemory(t, size)
    \/ \E t \in MemoryTypes, size \in Sizes : CallBindImageMemory(t, size)
    \/ \E allocation \in handles \cup Forged : CallMap(allocation)
    \/ \E allocation \in handles \cup Forged : CallUnmap(allocation)
    \/ \E allocation \in handles \cup Forged : CallFreeAllocation(allocation)

Spec == Init /\ [][Next]_vars

\* ------------------------------------------------------------ vocabulary

\* Where the chunks are.
Locs == UNION {{Loc(t, i) : i \in 1 .. Len(chunks[t])} : t \in MemoryTypes}

ChunkAt(loc) == chunks[loc.memory_type_index][loc.index]

\* The chunks that hold a host mapping.
Mappings == {loc \in Locs : ChunkAt(loc).is_mapped}

\* The allocation is tracked by its chunk.
Live(allocation) ==
    \E loc \in Locs : allocation \in ChunkAt(loc).allocations

\* No chunk was ever given this identifier.
NeverIssued(chunk_identifier) ==
    chunk_identifier = 0 \/ chunk_identifier > identifier_counter

\* Some chunk has this identifier.
ChunkExists(chunk_identifier) ==
    \E loc \in Locs : ChunkAt(loc).chunk_identifier = chunk_identifier

RECURSIVE SumSizes(_)
SumSizes(S) ==
    IF S = {} THEN 0
    ELSE LET a == CHOOSE x \in S : TRUE IN a.size + SumSizes(S \ {a})

\* Bytes of the chunk no live allocation covers.
FreeSpace(chunk) ==
    Cardinality({o \in 0 .. (ChunkCapacity - 1) : is_free_space(chunk, o, 1)})

Disjoint(a, b) == a.offset + a.size <= b.offset \/ b.offset + b.size <= a.offset

\* ----------------------------------------------------------------- claims

\* C1: at most one host mapping is active across all chunks of all memory
\* types, whatever bind, map, unmap and free calls were made.
C1_AtMostOneMapping == Cardinality(Mappings) <= 1

\* C2: once a map() has succeeded, every further map() issued before an
\* unmap() fails with MemoryAlreadyMapped, whichever allocation it targets,
\* and maps nothing.
C2_SecondMapRejected ==
    [][(held # NoAllocation /\ last'.op = "map")
          => /\ last'.res = "MemoryAlreadyMapped"
             /\ Mappings' = Mappings
             /\ mapped']_vars

\* C2 happens: with A mapped, a map() of a handle of another chunk was rejected.
C2_Witness ==
    /\ held # NoAllocation
    /\ last.op = "map"
    /\ last.res = "MemoryAlreadyMapped"
    /\ last.allocation \in handles
    /\ last.allocation.chunk_identifier # held.chunk_identifier

\* C3: unmap() of a handle after a successful map() of it clears the mapped
\* flag, which stays clear until the next map(); that map(), on any allocation
\* whose chunk exists, is not rejected as already mapped or not found: it
\* succeeds unless the chunk's own map fails.
C3_UnmapReopens ==
    /\ reopened = "unmapped" => ~mapped
    /\ reopened = "remapped" =>
          /\ last.op = "map"
          /\ ChunkExists(last.allocation.chunk_identifier)
                => /\ last.res \in {"Ok", "MappingFailed"}
                   /\ last.res = "Ok" => held = last.allocation /\ Mappings # {}

\* C3 happens: a handle was mapped and unmapped, and the map() that followed
\* succeeded.
C3_Witness ==
    /\ reopened = "remapped"
    /\ last.res = "Ok"
    /\ last.allocation \in handles

\* C4 as stated: free, map and unmap of a handle whose chunk identifier was
\* never issued always fail with their NotFound error.
C4_NeverIssuedIsNotFound ==
    NeverIssued(last.allocation.chunk_identifier) =>
        /\ last.op = "free_allocation" => last.res = "NoAllocationFoundToFree"
        /\ last.op = "unmap" => last.res = "NoAllocationFoundToUnmap"
        /\ last.op = "map" => last.res = "NoAllocationFoundToMap"

\* C4 amended: free and unmap of such a handle always fail with their NotFound
\* error; map of it always fails, with NoAllocationFoundToMap while the mapped
\* flag is clear and with MemoryAlreadyMapped while it is set; the flag is left
\* as it was.
C4_NeverIssuedFails ==
    [][NeverIssued(last'.allocation.chunk_identifier) =>
          /\ last'.op = "free_allocation" => last'.res = "NoAllocationFoundToFree"
          /\ last'.op = "unmap" => last'.res = "NoAllocationFoundToUnmap"
          /\ last'.op = "map" =>
                /\ last'.res = IF mapped THEN "MemoryAlreadyMapped"
                                        ELSE "NoAllocationFoundToMap"
                /\ mapped' = mapped]_vars

\* C4 happens: while a chunk was mapped, a map of a never issued chunk
\* identifier was rejected as already mapped.
C4_Witness ==
    /\ NeverIssued(last.allocation.chunk_identifier)
    /\ last.op = "map"
    /\ last.res = "MemoryAlreadyMapped"
    /\ Mappings # {}

\* C5: a second free of a handle a bind returned and a free released does not
\* return success.
C5_DoubleFreeSignalled ==
    [][(/\ last'.op = "free_allocation"
        /\ last'.allocation \in handles
        /\ ~Live(last'.allocation))
          => last'.res # "Ok"]_vars

\* C6: the live allocations of a chunk never overlap, and their sizes plus the
\* chunk's free space make up the chunk's capacity.
C6_ChunkAccounting ==
    \A loc \in Locs :
        /\ \A a \in ChunkAt(loc).allocations, b \in ChunkAt(loc).allocations :
              a # b => Disjoint(a, b)
        /\ SumSizes(ChunkAt(loc).allocations) + FreeSpace(ChunkAt(loc))
              = ChunkCapacity

\* C7: an allocation a bind returns lies inside its chunk, also when the size
\* asked for is larger than a chunk.
C7_AllocationFitsChunk ==
    (last.op = "bind" /\ last.res = "Ok")
        => last.ret.offset + last.ret.size <= ChunkCapacity

\* C8: bind, free of that allocation, bind of the same size and memory type:
\* the second bind creates no chunk and, unless the device refuses the bind,
\* succeeds in the same chunk at the same offset.
C8_RebindSameOffset ==
    [][(/\ rebind # NoAllocation
        /\ last'.op = "bind"
        /\ last'.size = rebind.size
        /\ \E loc \in Locs :
              /\ ChunkAt(loc).chunk_identifier = rebind.chunk_identifier
              /\ loc.memory_type_index = last'.memory_type_index)
          => /\ identifier_counter' = identifier_counter
             /\ last'.res \in {"Ok", "BindFailed"}
             /\ last'.res = "Ok"
                   => /\ last'.ret.chunk_identifier = rebind.chunk_identifier
                      /\ last'.ret.offset = rebind.offset]_vars

\* C9: a bind of size s and type T lands in the earliest chunk of T's list
\* that reports a free offset for s, at that offset; only if none does is a
\* chunk created, appended last, and the allocation bound at its offset 0.
C9_FirstFitAcrossChunks ==
    [][last'.op = "bind" =>
          LET t == last'.memory_type_index
              s == last'.size
              reports(i) == find_free_memory_offset(chunks[t][i], s)
              room == {i \in 1 .. Len(chunks[t]) : reports(i).some}
          IN  IF \E i \in room : \A j \in room : i <= j
              THEN LET i == CHOOSE i \in room : \A j \in room : i <= j
                   IN  /\ identifier_counter' = identifier_counter
                       /\ Len(chunks'[t]) = Len(chunks[t])
                       /\ last'.res = "Ok" =>
                             /\ last'.ret.chunk_identifier =
                                   chunks[t][i].chunk_identifier
                             /\ last'.ret.offset = reports(i).offset
                             /\ last'.ret \in chunks'[t][i].allocations
              ELSE /\ identifier_counter' = identifier_counter + 1
                   /\ last'.res # "ChunkCreationFailed" =>
                         /\ Len(chunks'[t]) = Len(chunks[t]) + 1
                         /\ SubSeq(chunks'[t], 1, Len(chunks[t])) = chunks[t]
                         /\ chunks'[t][Len(chunks'[t])].chunk_identifier =
                               identifier_counter'
                   /\ last'.res = "Ok" =>
                         /\ last'.ret.chunk_identifier = identifier_counter'
                         /\ last'.ret.offset = 0
                         /\ last'.ret \in
                               chunks'[t][Len(chunks'[t])].allocations]_vars

\* C9 happens: two chunks of one type both had room and the bind took the
\* earlier one.
C9_Witness ==
    /\ last.op = "bind"
    /\ last.res = "Ok"
    /\ \E t \in MemoryTypes :
          /\ Len(chunks[t]) = 2
          /\ last.ret \in chunks[t][1].allocations
          /\ find_free_memory_offset(chunks[t][2], last.size).some

\* C10: a map() that fails in the chunk (MappingFailed) leaves the mapped flag
\* clear.
C10_FailedMapLeavesFlagClear ==
    (last.op = "map" /\ last.res = "MappingFailed") => ~mapped


\* C11: a bind that returns an error (the chunk could not be created, or the
\* chunk's bind failed) changes no chunk that existed before the call, leaves
\* a chunk it created without any occupied range, and hands out no allocation.
C11_FailedBindNotApplied ==
    [][(last'.op = "bind" /\ last'.res # "Ok") =>
          /\ last'.ret = NoAllocation
          /\ handles' = handles
          /\ \A t \in MemoryTypes :
                /\ Len(chunks'[t]) >= Len(chunks[t])
                /\ \A i \in 1 .. Len(chunks'[t]) :
                      IF i <= Len(chunks[t])
                      THEN chunks'[t][i] = chunks[t][i]
                      ELSE chunks'[t][i].allocations = {}]_vars

\* C11 happens: the chunk's bind failed in a chunk that holds an allocation and
\* has room for the request.
C11_Witness ==
    /\ last.op = "bind"
    /\ last.res = "BindFailed"
    /\ \E i \in 1 .. Len(chunks[last.memory_type_index]) :
          /\ chunks[last.memory_type_index][i].allocations # {}
          /\ find_free_memory_offset(chunks[last.memory_type_index][i],
                                     last.size).some

\* C12: no two chunks of the pool, of whatever memory types, share a chunk
\* identifier; every chunk identifier is at least 1 and at most
\* identifier_counter; in each memory type's list the identifiers strictly
\* increase; so a handle's chunk identifier matches at most one chunk.
C12_ChunkIdentifiersUnique ==
    /\ \A a \in Locs, b \in Locs :
          ChunkAt(a).chunk_identifier = ChunkAt(b).chunk_identifier => a = b
    /\ \A a \in Locs :
          /\ 1 <= ChunkAt(a).chunk_identifier
          /\ ChunkAt(a).chunk_identifier <= identifier_counter
    /\ \A t \in MemoryTypes : \A i \in 1 .. Len(chunks[t]), j \in 1 .. Len(chunks[t]) :
          i < j => chunks[t][i].chunk_identifier < chunks[t][j].chunk_identifier
    /\ \A h \in handles \cup Forged :
          Cardinality(lookup(h.chunk_identifier)) = 1

\* C12 happens: chunks of two memory types exist, and handles into both.
C12_Witness ==
    \E a \in Locs, b \in Locs :
        /\ a.memory_type_index # b.memory_type_index
        /\ \E h \in handles : h.chunk_identifier = ChunkAt(a).chunk_identifier
        /\ \E h \in handles : h.chunk_identifier = ChunkAt(b).chunk_identifier

\* C13: every chunk kept in the list of memory type T was created with memory
\* type T, and the allocation a successful bind for memory type T returns names
\* a chunk of T's list, which holds that allocation.
C13_ChunksKeepTheirType ==
    /\ \A t \in MemoryTypes : \A i \in 1 .. Len(chunks[t]) :
          chunks[t][i].memory_type_index = t
    /\ (last.op = "bind" /\ last.res = "Ok") =>
          \E i \in 1 .. Len(chunks[last.memory_type_index]) :
              /\ chunks[last.memory_type_index][i].chunk_identifier =
                    last.ret.chunk_identifier
              /\ last.ret \in chunks[last.memory_type_index][i].allocations

\* C13 happens: a bind for memory type 1 succeeded while memory type 0 has a
\* chunk too.
C13_Witness ==
    /\ last.op = "bind"
    /\ last.res = "Ok"
    /\ last.memory_type_index = 1
    /\ Len(chunks[0]) > 0
    /\ Len(chunks[1]) > 0

\* C14: an unmap() whose handle's chunk identifier matches a chunk returns
\* success and leaves the mapped flag false, whatever the flag was before; the
\* same unmap() made once more succeeds again and changes nothing.
C14_UnmapIdempotent ==
    (last.op = "unmap" /\ ChunkExists(last.allocation.chunk_identifier)) =>
        /\ last.res = "Ok"
        /\ ~mapped
        /\ \A loc \in lookup(last.allocation.chunk_identifier) :
              /\ loc # NoLoc
              /\ ~ChunkAt(loc).is_mapped
              /\ unmap(last.allocation, loc) =
                    [res |-> "Ok", chunks |-> chunks, mapped |-> mapped]

\* C14 happens: a handle whose allocation was never mapped is unmapped, in a
\* pool of two chunks.
C14_Witness ==
    /\ last.op = "unmap"
    /\ last.res = "Ok"
    /\ last.allocation \in handles
    /\ reopened = "no"
    /\ Cardinality(Locs) = 2

\* C15: no call removes, reorders or replaces a chunk of a memory type's list:
\* the list's earlier chunk identifiers are a prefix of its later ones. Only a
\* bind for that memory type lengthens the list, and by one chunk at most.
C15_ChunkListsAppendOnly ==
    [][\A t \in MemoryTypes :
          /\ Len(chunks'[t]) >= Len(chunks[t])
          /\ \A i \in 1 .. Len(chunks[t]) :
                /\ chunks'[t][i].chunk_identifier = chunks[t][i].chunk_identifier
                /\ chunks'[t][i].memory_type_index = chunks[t][i].memory_type_index
          /\ Len(chunks'[t]) <= Len(chunks[t]) +
                (IF last'.op = "bind" /\ last'.memory_type_index = t
                 THEN 1 ELSE 0)]_vars

\* C15 happens: a free emptied a chunk, which is still in its list, ahead of a
\* later chunk of the same memory type.
C15_Witness ==
    /\ last.op = "free_allocation"
    /\ last.res = "Ok"
    /\ last.allocation \in handles
    /\ \E t \in MemoryTypes :
          /\ Len(chunks[t]) = 2
          /\ chunks[t][1].chunk_identifier = last.allocation.chunk_identifier
          /\ chunks[t][1].allocations = {}

\* C16: once free_allocation() of a handle has succeeded, map() and unmap() of
\* that handle fail, though the handle's chunk is still in the pool, and the
\* map() leaves the mapped flag as it was.
C16_FreedHandleRejected ==
    [][(/\ last'.op \in {"map", "unmap"}
        /\ last'.allocation \in handles
        /\ ~Live(last'.allocation)
        /\ ChunkExists(last'.allocation.chunk_identifier)) =>
          /\ last'.res \in {"NoAllocationFoundToMap", "NoAllocationFoundToUnmap",
                            "MemoryAlreadyMapped"}
          /\ (last'.op = "map" => mapped' = mapped)]_vars

\* C17: a map(), unmap() or free_allocation() that returns its NotFound error,
\* and a map() that returns MemoryAlreadyMapped, changes nothing of the pool:
\* not the chunk lists, nor any chunk's allocations or mapping, nor
\* identifier_counter, nor the mapped flag.
C17_RejectedCallChangesNothing ==
    [][(/\ last'.op \in {"map", "unmap", "free_allocation"}
        /\ last'.res \in {"NoAllocationFoundToMap", "NoAllocationFoundToUnmap",
                          "NoAllocationFoundToFree", "MemoryAlreadyMapped"}) =>
          /\ chunks' = chunks
          /\ identifier_counter' = identifier_counter
          /\ mapped' = mapped]_vars

\* C17 happens: a map() found no chunk for its handle in a pool that has chunks
\* and handles, and nothing is mapped.
C17_Witness ==
    /\ last.op = "map"
    /\ last.res = "NoAllocationFoundToMap"
    /\ Locs # {}
    /\ handles # {}
    /\ ~mapped

\* C18: free_allocation() leaves the mapped flag as it was; freeing the
\* allocation that is mapped succeeds with the flag still set; while the flag
\* is set every map() fails with MemoryAlreadyMapped, and only a successful
\* unmap(), one whose handle's chunk exists, clears it.
C18_FreeKeepsMappedFlag ==
    [][/\ last'.op = "free_allocation" => mapped' = mapped
       /\ (/\ last'.op = "free_allocation"
           /\ mapped
           /\ held # NoAllocation
           /\ last'.allocation = held) => (last'.res = "Ok" /\ mapped')
       /\ (mapped /\ last'.op = "map") =>
             (last'.res = "MemoryAlreadyMapped" /\ mapped')
       /\ (mapped /\ ~mapped') =>
             /\ last'.op = "unmap"
             /\ last'.res = "Ok"
             /\ ChunkExists(last'.allocation.chunk_identifier)]_vars

\* C18 happens: the mapped allocation was freed, and a map() of another, live
\* allocation is refused with MemoryAlreadyMapped.
C18_Witness ==
    /\ last.op = "map"
    /\ last.res = "MemoryAlreadyMapped"
    /\ mapped
    /\ held \in handles
    /\ ~Live(held)
    /\ last.allocation \in handles
    /\ Live(last.allocation)
====
